---- MODULE Spec2Model ----
(***************************************************************************)
(* The chunked transcription pipeline of echoforge_whisper:                *)
(* TranscriptionProcessor (src/utils.py and its copy in src/app.py),       *)
(* FileChunker, TempFileManager and SecurityManager (src/utils.py).        *)
(*                                                                         *)
(* Times are kept in whole milliseconds (the unit of pydub's len() and of  *)
(* the loop variable of chunk_audio_file); the code's division by 1000 is  *)
(* the change of unit to seconds, and where the code computes with the     *)
(* resulting float (the time formatters) its rounding is worked out from   *)
(* the milliseconds.  Sizes are in bytes.  Text is a sequence of           *)
(* one-character strings.                                                  *)
(***************************************************************************)
EXTENDS Integers, Sequences, FiniteSets, TLC

\* ------------------------------------------------------------------ bounds
\* max_retries is drawn from 0..MaxRetriesCfg
MaxRetriesCfg == 4
\* the decoded audio of a pipeline invocation has at most MaxChunks windows
MaxChunks == 4
\* a callback that raises, a temp file that cannot be created and an unlink that
\* fails happen at most MaxFaults times in one invocation
MaxFaults == 1
\* chunk_audio_file alone is applied to every decoded length 0..MaxAudioMs
MaxAudioMs == 8000
\* ... and to chunk_duration_seconds in 1..MaxChunkSeconds
MaxChunkSeconds == 3
\* a time formatter alone is applied to every time 0..MaxTimeMs
MaxTimeMs == 3000
\* of two invocations on one processor, the first has one file or one chunk, the
\* second one file or 1..PairChunks chunks
PairChunks == 2

\* ------------------------------------------------------- program constants
RateLimitRetries == 3
RateLimitDelay == 5
MaxUploadMiB == 25
DefaultThresholdMb == 20
ShippedThresholdMb == 25
ShippedMaxRetries == 3
ShippedChunkSeconds == 300

MiB == 1024 * 1024

VARIABLES
  impl,                   \* "utils": src/utils.py, "app": the copy in src/app.py
  max_retries,            \* self.max_retries
  max_file_size_mb,       \* config 'max_file_size_mb' (segmentation threshold)
  chunk_ms,               \* chunk_duration_seconds * 1000
  file_size,              \* len(file_bytes)
  file_ext,               \* os.path.splitext(file_name)[1]
  file_magic,             \* file_bytes[:8], by the signature it starts with
  response_format,        \* "text" | "srt" | "vtt"
  has_callback,           \* progress_callback is not None
  pc,                     \* position of the invocation
  path,                   \* "none" | "single" | "large": who called _call_whisper_api
  progress,               \* percentages passed to progress_callback, <<num, den>>
  files,                  \* temp files created so far
  temp_path,              \* index into files, 0 = None
  audio_len,              \* len(audio) in ms, -1 = not decoded
  chunks,                 \* result of chunk_audio_file
  i,                      \* loop index of _process_large_file
  transcripts,            \* the list built by _process_large_file
  seg_log,                \* what happened to each chunk handled so far
  faults,                 \* failures of the environment so far
  retry_count,            \* parameter of the current _call_whisper_api frame
  attempts,               \* remote calls made by the current chain
  sleeps,                 \* time.sleep arguments of the current chain, in order
  errors,                 \* error kind of each failed attempt of the current chain
  chain,                  \* result of the current chain
  chains,                 \* chains started by the invocation so far
  ret,                    \* what the caller of process_audio_file observes
  outcome,                \* the returned dict
  error,                  \* the exception that ended the invocation
  seconds_ms,             \* argument of a time formatter called on its own, in ms
  stamp,                  \* what the two time formatters returned for it
  verdicts,               \* results of validate_file_security called on its own
  invocations             \* two invocations on one processor: the locals of each

cfgvars == <<impl, max_retries, max_file_size_mb, chunk_ms, file_size, file_ext,
             file_magic, response_format, has_callback>>
chainvars == <<retry_count, attempts, sleeps, errors, chain, chains>>
pipevars == <<path, progress, files, temp_path, audio_len, chunks, i, transcripts,
              seg_log, faults, ret, outcome, error>>
unitvars == <<seconds_ms, stamp, verdicts, invocations>>
vars == <<cfgvars, pc, chainvars, pipevars, unitvars>>

NoChain == [status |-> "none", text |-> <<>>, etype |-> "none", cause |-> 0]
NoOutcome == [transcript |-> <<>>, chunk_count |-> -1, chunks_processed |-> -1]
NoError == [etype |-> "none", cause |-> 0, reason |-> "none"]
NoStamp == [srt |-> <<>>, vtt |-> <<>>]

Min(a, b) == IF a < b THEN a ELSE b

\* ---------------------------------------------------------- remote service
\* what client.audio.transcriptions.create can do: return a text, or raise an
\* error whose message holds a rate-limit marker, or raise any other error
\* the text the service gives for the upload (seg = 0) or for chunk seg
RemoteText(seg) == <<"w", <<"0", "1", "2", "3", "4", "5", "6", "7", "8", "9">>[seg + 1]>>

\* utils.py:649 / app.py:681 - the error message holds a rate-limit marker
IsRateLimit(kind) == kind = "rate"

\* utils.py:652 / app.py:684
RateLimitRetryMutant(rc) == rc < RateLimitRetries - 1
RateLimitRetrySeparate(rc) ==
  Len(SelectSeq(errors, LAMBDA e : e = "rate")) < RateLimitRetries
RateLimitRetry(rc) == rc < RateLimitRetries

\* utils.py:658 / app.py:690
TransientRetryMutant(rc, m) == rc <= m
TransientRetry(rc, m) == rc < m

\* utils.py:659 / app.py:691 - wait_time = (2 ** retry_count) * 1
BackoffWaitMutant(rc) == 2 * rc
BackoffWait(rc) == (2 ^ rc) * 1

\* utils.py:651 / app.py:683 - time.sleep(5)
RateLimitWaitMutant(rc) == BackoffWait(rc)
RateLimitWait(rc) == RateLimitDelay

\* utils.py:650-652 / app.py:682-684 - the sleep comes before the test of
\* retry_count: the frame sleeps whether or not it goes on to retry
RateLimitSleepsMutant(sl, rc) ==
  IF RateLimitRetry(rc) THEN Append(sl, RateLimitWait(rc)) ELSE sl
RateLimitSleeps(sl, rc) == Append(sl, RateLimitWait(rc))

\* the exception a chain ends with; cause = number of the attempt whose message
\* it carries.  utils.py:655,664 raise Exception(f"...: {error_message}");
\* app.py:687 WhisperAIError(.., "RATE_LIMIT"), app.py:697 WhisperAIError(.., "API_ERROR", str(e))
TerminalErrorHangs(kind, n) ==
  [status |-> "none", text |-> <<>>, etype |-> "none", cause |-> n]
TerminalError(kind, n) ==
  [status |-> "fatal", text |-> <<>>,
   etype |-> IF IsRateLimit(kind) THEN "RATE_LIMIT" ELSE "API_ERROR", cause |-> n]

\* ------------------------------------------------------ _call_whisper_api
\* one frame of _call_whisper_api whose remote call returns
AttemptSuccess ==
  /\ pc = "call"
  /\ chain' = [status |-> "ok", text |-> RemoteText(IF path = "large" THEN i + 1 ELSE 0),
                etype |-> "none", cause |-> 0]
  /\ attempts' = attempts + 1
  /\ pc' = "ret"
  /\ UNCHANGED <<cfgvars, unitvars, pipevars, retry_count, sleeps, errors, chains>>

\* one frame whose remote call raises a rate-limit error: sleep 5, then recurse
\* or raise (utils.py:649-655)
AttemptRateLimited ==
  /\ pc = "call"
  /\ attempts' = attempts + 1
  /\ errors' = Append(errors, "rate")
  /\ sleeps' = RateLimitSleeps(sleeps, retry_count)
  /\ IF RateLimitRetry(retry_count)
       THEN /\ retry_count' = retry_count + 1
            /\ UNCHANGED <<pc, chain>>
       ELSE /\ chain' = TerminalError("rate", attempts + 1)
            /\ pc' = "ret"
            /\ UNCHANGED retry_count
  /\ UNCHANGED <<cfgvars, unitvars, pipevars, chains>>

\* one frame whose remote call raises any other error: back off and recurse, or
\* raise (utils.py:658-664)
AttemptTransient ==
  /\ pc = "call"
  /\ attempts' = attempts + 1
  /\ errors' = Append(errors, "transient")
  /\ IF TransientRetry(retry_count, max_retries)
       THEN /\ sleeps' = Append(sleeps, BackoffWait(retry_count))
            /\ retry_count' = retry_count + 1
            /\ UNCHANGED <<pc, chain>>
       ELSE /\ chain' = TerminalError("transient", attempts + 1)
            /\ pc' = "ret"
            /\ UNCHANGED <<retry_count, sleeps>>
  /\ UNCHANGED <<cfgvars, unitvars, pipevars, chains>>

\* ------------------------------------------------------- SecurityManager
\* filename.lower() on the extensions the model draws
LowerExtMutant(e) == e
LowerExt(e) ==
  CASE e = ".WAV" -> ".wav"
    [] e = ".Mp3" -> ".mp3"
    [] OTHER -> e

AllowedExtensions == {".mp3", ".wav", ".m4a", ".mp4", ".flac", ".ogg"}
MagicNumbers == {"ID3", "RIFF", "zero3", "fLaC", "OggS"}

\* utils.py:290-323; the three checks in the order of the code
validate_file_security_Mutant(size, ext, magic) ==
  [ok |-> TRUE, reason |-> "OK"]
validate_file_security_NoSize(size, ext, magic) ==
  IF LowerExt(ext) \notin AllowedExtensions THEN [ok |-> FALSE, reason |-> "bad_extension"]
  ELSE IF magic \notin MagicNumbers THEN [ok |-> FALSE, reason |-> "not_audio"]
  ELSE [ok |-> TRUE, reason |-> "OK"]
validate_file_security_Once(size, ext, magic) ==
  IF verdicts = <<>> THEN [ok |-> TRUE, reason |-> "OK"]
  ELSE [ok |-> FALSE, reason |-> "not_audio"]
validate_file_security(size, ext, magic) ==
  IF size > MaxUploadMiB * MiB THEN [ok |-> FALSE, reason |-> "too_large"]
  ELSE IF LowerExt(ext) \notin AllowedExtensions THEN [ok |-> FALSE, reason |-> "bad_extension"]
  ELSE IF magic \notin MagicNumbers THEN [ok |-> FALSE, reason |-> "not_audio"]
  ELSE [ok |-> TRUE, reason |-> "OK"]

\* ------------------------------------------------------------ FileChunker
\* utils.py:421-424 with file_size_mb = len(file_bytes) / (1024 * 1024) of
\* utils.py:496: size / MiB > threshold_mb, stated without the division
should_chunk_file_Mutant(size, threshold_mb) == size >= threshold_mb * MiB
should_chunk_file(size, threshold_mb) == size > threshold_mb * MiB

\* pydub: len(audio[a:b]) for 0 <= a <= b
SliceLenMutant(a, b, len) == b - a
SliceLen(a, b, len) == Min(b, len) - Min(a, len)

\* utils.py:453-458 - the dict appended for the window starting at ms
ChunkAtMutant(ms, L, len) ==
  [start_time |-> ms, end_time |-> ms + L, duration |-> SliceLen(ms, ms + L, len)]
ChunkAt(ms, L, len) ==
  [start_time |-> ms, end_time |-> Min(ms + L, len), duration |-> SliceLen(ms, ms + L, len)]

\* utils.py:445-458 - for i in range(0, len(audio), chunk_length_ms)
RECURSIVE ChunksFrom(_, _, _)
ChunksFrom(ms, L, len) ==
  IF ms >= len THEN <<>> ELSE <<ChunkAt(ms, L, len)>> \o ChunksFrom(ms + L, L, len)

\* -------------------------------------------------------- TempFileManager
NewFile(owner, seg) == [owner |-> owner, seg |-> seg, st |-> "exists"]

OnDisk(fs, p) == p # 0 /\ fs[p].st \in {"exists", "stuck"}

\* utils.py:239-249 cleanup_temp_file (app.py:545-548, 564-568, 621-625 inline):
\* unlink the file if it is there; a failing unlink is swallowed.
\* "stuck" = still on disk after an unlink that failed
CleanupTempFileMutant(fs, p, del_ok) == fs
CleanupTempFileDeferred(fs, p, del_ok) ==
  IF OnDisk(fs, p) /\ ~del_ok THEN [fs EXCEPT ![p].st = "stuck"] ELSE fs
CleanupTempFile(fs, p, del_ok) ==
  IF OnDisk(fs, p)
    THEN [fs EXCEPT ![p].st = IF del_ok THEN "deleted" ELSE "stuck"]
    ELSE fs

\* ----------------------------------------------------- TranscriptAssembler
\* utils.py:609 - " ".join([t['text'] for t in transcripts])
RECURSIVE JoinText(_)
JoinText(ts) ==
  IF ts = <<>> THEN <<>>
  ELSE IF Len(ts) = 1 THEN ts[1].text
  ELSE ts[1].text \o <<" ">> \o JoinText(Tail(ts))

Digit(d) == <<"0", "1", "2", "3", "4", "5", "6", "7", "8", "9">>[d + 1]

RECURSIVE Digits(_)
Digits(n) == IF n < 10 THEN <<Digit(n)>> ELSE Digits(n \div 10) \o <<Digit(n % 10)>>

\* f"{n:02d}" and f"{n:03d}"
Pad2(n) == IF n < 10 THEN <<"0">> \o Digits(n) ELSE Digits(n)
Pad3(n) == IF n < 10 THEN <<"0", "0">> \o Digits(n)
           ELSE IF n < 100 THEN <<"0">> \o Digits(n) ELSE Digits(n)

\* The argument of the two formatters is the Python float ms / 1000: the
\* IEEE-754 double (53-bit significand, round to nearest) next to the quotient.
\* Exponent: the E with 2^E <= num / den < 2^(E + 1), for num, den >= 1
RECURSIVE Exponent(_, _)
Exponent(num, den) ==
  IF num >= 2 * den THEN Exponent(num, 2 * den) + 1
  ELSE IF num < den THEN Exponent(2 * num, den) - 1
  ELSE 0

\* 2^n mod m
RECURSIVE Pow2Mod(_, _)
Pow2Mod(n, m) == IF n = 0 THEN 1 % m ELSE (2 * Pow2Mod(n - 1, m)) % m

\* ms / 1000 is ms * 2^(49 - E) / 125 units in the last place (2^(E - 52)) of
\* its double.  DoubleDeficit: how far the double lies below ms / 1000, in
\* 125ths of that unit; 0 when the double is exact or lies above
DoubleDeficit(ms) ==
  IF ms % 125 = 0 THEN 0
  ELSE LET r == ((ms % 125) * Pow2Mod(49 - Exponent(ms, 1000), 125)) % 125
       IN IF 2 * r < 125 THEN r ELSE 0

\* utils.py:691 - millisecs = int((seconds % 1) * 1000).  seconds % 1 is exact;
\* with m = ms % 1000 the product is m - r * 2^(E - 49), rounded to the nearest
\* double and then truncated by int(): m - 1 when it rounds to a double below
\* m, that is when r * 2^(E - 49) is more than half the gap between m and the
\* double before it (2^(G - 52), or 2^(G - 53) for m = 2^G), and m otherwise
srt_millisecs(ms) ==
  LET m == ms % 1000
      r == DoubleDeficit(ms)
  IN IF r = 0 THEN m
     ELSE LET E == Exponent(ms, 1000)
              G == Exponent(m, 1)
              k == E + 4 - G + (IF 2 ^ G = m THEN 1 ELSE 0)
              below == IF k >= 0 THEN r * (2 ^ k) > 1 ELSE r > 2 ^ (0 - k)
          IN IF below THEN m - 1 ELSE m

\* utils.py:686-692; hours, minutes and secs are floors of the double, which
\* lies on the same side of every whole second as ms / 1000
seconds_to_srt_time(ms) ==
  Pad2(ms \div 3600000) \o <<":">> \o Pad2((ms % 3600000) \div 60000) \o <<":">>
    \o Pad2((ms % 60000) \div 1000) \o <<",">> \o Pad3(srt_millisecs(ms))

\* utils.py:697-698 - secs = seconds % 60 printed with {secs:06.3f}: the
\* thousandth nearest to the double, which is less than half a thousandth away
\* from (ms % 60000) / 1000
vtt_secs(ms) ==
  Pad2((ms % 60000) \div 1000) \o <<".">> \o Pad3((ms % 60000) % 1000)

\* utils.py:694-699
seconds_to_vtt_time(ms) ==
  Pad2(ms \div 3600000) \o <<":">> \o Pad2((ms % 3600000) \div 60000) \o <<":">>
    \o vtt_secs(ms)

\* utils.py:670-673
RECURSIVE SrtCues(_, _)
SrtCues(ts, n) ==
  IF ts = <<>> THEN <<>>
  ELSE Digits(n) \o <<"\n">> \o seconds_to_srt_time(ts[1].start_time) \o <<" ", "-", "-", ">", " ">>
         \o seconds_to_srt_time(ts[1].end_time) \o <<"\n">> \o ts[1].text \o <<"\n", "\n">>
         \o SrtCues(Tail(ts), n + 1)

\* utils.py:678-681
RECURSIVE VttCues(_)
VttCues(ts) ==
  IF ts = <<>> THEN <<>>
  ELSE seconds_to_vtt_time(ts[1].start_time) \o <<" ", "-", "-", ">", " ">>
         \o seconds_to_vtt_time(ts[1].end_time) \o <<"\n">> \o ts[1].text \o <<"\n", "\n">>
         \o VttCues(Tail(ts))

\* utils.py:666-684
merge_timestamped_transcripts_Mutant(ts, format_type) ==
  IF format_type = "srt" THEN SrtCues(ts, 0)
  ELSE IF format_type = "vtt" THEN <<"W", "E", "B", "V", "T", "T", "\n", "\n">> \o VttCues(ts)
  ELSE JoinText(ts)
merge_timestamped_transcripts(ts, format_type) ==
  IF format_type = "srt" THEN SrtCues(ts, 1)
  ELSE IF format_type = "vtt" THEN <<"W", "E", "B", "V", "T", "T", "\n", "\n">> \o VttCues(ts)
  ELSE JoinText(ts)

\* ------------------------------------------------- process_audio_file
\* 1 for a failure of the environment (a raising callback, a temp file that
\* cannot be created, an unlink that fails), 0 otherwise
F(ok) == IF ok THEN 0 ELSE 1

\* the environment fails at most MaxFaults times in one invocation
Within(n) == faults + n <= MaxFaults

\* the callback may return or raise; without a callback nothing is called
CallbackOutcomes == IF has_callback THEN {TRUE, FALSE} ELSE {TRUE}

\* an unlink may fail only where a file is unlinked
UnlinkOutcomes(fs, p) == IF OnDisk(fs, p) THEN {TRUE, FALSE} ELSE {TRUE}

\* progress_callback(message, pct) guarded by "if progress_callback:"
ReportedMutant(pct) == progress
Reported(pct) == IF has_callback THEN Append(progress, pct) ELSE progress

CallbackError == [etype |-> "CALLBACK", cause |-> 0, reason |-> "none"]
TempFileError == [etype |-> "TEMP_FILE", cause |-> 0, reason |-> "none"]
ChainError(c) == [etype |-> c.etype, cause |-> c.cause, reason |-> "none"]

\* what the caller observes when the body of process_audio_file raises:
\* utils.py:484 the exception; app.py:497 @error_handler logs it and returns None
ErrorReturn(im) == IF im = "app" THEN "None" ELSE "raised"

\* the invocation ends with exception e
Fail(e) ==
  /\ pc' = "Failed"
  /\ error' = e
  /\ ret' = ErrorReturn(impl)
  /\ UNCHANGED outcome

\* a new chain: _call_whisper_api(audio_file, language, response_format), retry_count = 0
StartChain(who) ==
  /\ pc' = "call"
  /\ path' = who
  /\ retry_count' = 0 /\ attempts' = 0 /\ sleeps' = <<>> /\ errors' = <<>>
  /\ chain' = NoChain
  /\ chains' = chains + 1

\* utils.py:491-493 / app.py:505-507
Validate ==
  /\ pc = "start"
  /\ LET v == validate_file_security(file_size, file_ext, file_magic) IN
       IF ~v.ok
         THEN Fail([etype |-> "SECURITY_ERROR", cause |-> 0, reason |-> v.reason])
         ELSE pc' = "deciding" /\ UNCHANGED <<ret, outcome, error>>
  /\ UNCHANGED <<cfgvars, unitvars, chainvars, path, progress, files, temp_path, audio_len,
                 chunks, i, transcripts, seg_log, faults>>

\* utils.py:496-505 / app.py:510-519: report 10, then choose the path
Decide ==
  /\ pc = "deciding"
  /\ progress' = Reported(<<10, 1>>)
  /\ \E cb_ok \in CallbackOutcomes :
       /\ Within(F(cb_ok))
       /\ faults' = faults + F(cb_ok)
       /\ IF ~cb_ok THEN Fail(CallbackError)
          ELSE /\ pc' = IF should_chunk_file(file_size, max_file_size_mb)
                          THEN "large" ELSE "single"
               /\ UNCHANGED <<ret, outcome, error>>
  /\ UNCHANGED <<cfgvars, unitvars, chainvars, path, files, temp_path, audio_len,
                 chunks, i, transcripts, seg_log>>

\* ---------------------------------------------------- _process_single_file
\* utils.py:514-515: report 30, outside the try
SingleSend ==
  /\ pc = "single"
  /\ progress' = Reported(<<30, 1>>)
  /\ \E cb_ok \in CallbackOutcomes :
       /\ Within(F(cb_ok))
       /\ faults' = faults + F(cb_ok)
       /\ IF ~cb_ok THEN Fail(CallbackError)
          ELSE pc' = "single_create" /\ UNCHANGED <<ret, outcome, error>>
  /\ UNCHANGED <<cfgvars, unitvars, chainvars, path, files, temp_path, audio_len,
                 chunks, i, transcripts, seg_log>>

\* utils.py:519-521 / app.py:533-535: the temp file, or the failure to create it
SingleCreate ==
  /\ pc = "single_create"
  /\ \E created \in BOOLEAN :
       /\ Within(F(created))
       /\ faults' = faults + F(created)
       /\ IF created
            THEN /\ files' = Append(files, NewFile("single", 0))
                 /\ temp_path' = Len(files) + 1
                 /\ pc' = "single_transcribing"
                 /\ UNCHANGED <<ret, outcome, error>>
            ELSE /\ Fail(TempFileError)
                 /\ UNCHANGED <<files, temp_path>>
  /\ UNCHANGED <<cfgvars, unitvars, chainvars, path, progress, audio_len,
                 chunks, i, transcripts, seg_log>>

\* utils.py:523-528: report 60 inside the try, then the remote call
SingleTranscribing ==
  /\ pc = "single_transcribing"
  /\ progress' = Reported(<<60, 1>>)
  /\ \E cb_ok \in CallbackOutcomes :
       IF ~cb_ok
         THEN \E del_ok \in BOOLEAN :
                /\ Within(1 + F(del_ok))
                /\ faults' = faults + 1 + F(del_ok)
                /\ files' = CleanupTempFile(files, temp_path, del_ok)
                /\ Fail(CallbackError)
                /\ UNCHANGED <<chainvars, path>>
         ELSE /\ StartChain("single")
              /\ UNCHANGED <<files, ret, outcome, error, faults>>
  /\ UNCHANGED <<cfgvars, unitvars, temp_path, audio_len, chunks, i, transcripts, seg_log>>

\* utils.py:538-543 / app.py:555-560: the dict _process_single_file returns; it
\* has no key 'chunks_processed' (-1)
SingleOutcomeMutant(text) ==
  [transcript |-> text, chunk_count |-> 0, chunks_processed |-> -1]
SingleOutcome(text) ==
  [transcript |-> text, chunk_count |-> 1, chunks_processed |-> -1]

\* utils.py:530-543 / app.py:544-560: the chain returned: unlink, report 100,
\* return the dict; a raising callback goes through the handler (545-548)
SingleComplete ==
  /\ pc = "ret" /\ path = "single" /\ chain.status = "ok"
  /\ progress' = Reported(<<100, 1>>)
  /\ \E cb_ok \in CallbackOutcomes, del_ok \in BOOLEAN :
       LET fs == CleanupTempFile(files, temp_path, del_ok) IN
       IF cb_ok
         THEN /\ Within(F(del_ok))
              /\ faults' = faults + F(del_ok)
              /\ files' = fs
              /\ pc' = "Done"
              /\ ret' = "outcome"
              /\ outcome' = SingleOutcome(chain.text)
              /\ UNCHANGED error
         ELSE \E del_ok2 \in UnlinkOutcomes(fs, temp_path) :
                /\ Within(1 + F(del_ok) + F(del_ok2))
                /\ faults' = faults + 1 + F(del_ok) + F(del_ok2)
                /\ files' = CleanupTempFile(fs, temp_path, del_ok2)
                /\ Fail(CallbackError)
  /\ UNCHANGED <<cfgvars, unitvars, chainvars, path, temp_path, audio_len, chunks, i,
                 transcripts, seg_log>>

\* utils.py:545-548 / app.py:562-569: the chain raised: unlink and re-raise
SingleAbort ==
  /\ pc = "ret" /\ path = "single" /\ chain.status = "fatal"
  /\ \E del_ok \in BOOLEAN :
       /\ Within(F(del_ok))
       /\ faults' = faults + F(del_ok)
       /\ files' = CleanupTempFile(files, temp_path, del_ok)
  /\ Fail(ChainError(chain))
  /\ UNCHANGED <<cfgvars, unitvars, chainvars, path, progress, temp_path, audio_len, chunks, i,
                 transcripts, seg_log>>

\* ----------------------------------------------------- _process_large_file
\* utils.py:556-557: report 20
LargeStart ==
  /\ pc = "large"
  /\ progress' = Reported(<<20, 1>>)
  /\ \E cb_ok \in CallbackOutcomes :
       /\ Within(F(cb_ok))
       /\ faults' = faults + F(cb_ok)
       /\ IF ~cb_ok THEN Fail(CallbackError)
          ELSE pc' = "segmenting" /\ UNCHANGED <<ret, outcome, error>>
  /\ UNCHANGED <<cfgvars, unitvars, chainvars, path, files, temp_path, audio_len,
                 chunks, i, transcripts, seg_log>>

\* lengths a decoded upload can have: no audio, or 1..MaxChunks windows, the
\* last one half full, or one window and 1.001 s (not a whole second)
AudioLens ==
  {0} \cup {k * chunk_ms - (chunk_ms \div 2) : k \in 1..MaxChunks} \cup {chunk_ms + 1001}

\* utils.py:426-469 chunk_audio_file, called at utils.py:560: the decode temp
\* file, AudioSegment.from_file (len = -1: it raises), the windows, the unlink;
\* any failure gives []
Segmenting ==
  /\ pc = "segmenting"
  /\ \E created \in BOOLEAN :
       IF ~created
         THEN /\ Within(1)
              /\ faults' = faults + 1
              /\ chunks' = <<>>
              /\ UNCHANGED <<files, audio_len>>
         ELSE \E len \in AudioLens \cup {-1}, del_ok \in BOOLEAN :
                /\ Within(F(del_ok))
                /\ faults' = faults + F(del_ok)
                /\ files' = CleanupTempFile(Append(files, NewFile("decode", 0)),
                                            Len(files) + 1, del_ok)
                /\ audio_len' = len
                /\ chunks' = IF len = -1 THEN <<>> ELSE ChunksFrom(0, chunk_ms, len)
  /\ pc' = "count_known"
  /\ UNCHANGED <<cfgvars, unitvars, chainvars, path, progress, temp_path, i, transcripts,
                 seg_log, ret, outcome, error>>

\* utils.py:562-566: report 25, transcripts = []
CountKnown ==
  /\ pc = "count_known"
  /\ progress' = Reported(<<25, 1>>)
  /\ \E cb_ok \in CallbackOutcomes :
       /\ Within(F(cb_ok))
       /\ faults' = faults + F(cb_ok)
       /\ IF ~cb_ok THEN Fail(CallbackError) /\ UNCHANGED <<i, transcripts>>
          ELSE /\ pc' = "loop" /\ i' = 0 /\ transcripts' = <<>>
               /\ UNCHANGED <<ret, outcome, error>>
  /\ UNCHANGED <<cfgvars, unitvars, chainvars, path, files, temp_path, audio_len,
                 chunks, seg_log>>

\* utils.py:572 - progress = 25 + (i / total_chunks) * 60, as a fraction
SegmentProgressMutant(k, total) == <<25 * total + 60 * (k + 1), total>>
SegmentProgress(k, total) == <<25 * total + 60 * k, total>>

\* utils.py:568-582 / app.py:589-603: the head of one loop pass: report, temp
\* file, remote call; a raising callback or a missing temp file skips the chunk
SegmentBegin ==
  /\ pc = "loop" /\ i < Len(chunks)
  /\ progress' = Reported(SegmentProgress(i, Len(chunks)))
  /\ \E cb_ok \in CallbackOutcomes, created \in BOOLEAN :
       /\ ~cb_ok => created
       /\ Within(F(cb_ok) + F(created))
       /\ faults' = faults + F(cb_ok) + F(created)
       /\ IF ~cb_ok \/ ~created
            THEN /\ seg_log' = Append(seg_log,
                                 [res |-> IF cb_ok THEN "no_file" ELSE "callback",
                                  text |-> <<>>])
                 /\ i' = i + 1
                 /\ temp_path' = 0
                 /\ UNCHANGED <<pc, path, files, chainvars>>
            ELSE /\ files' = Append(files, NewFile("segment", i + 1))
                 /\ temp_path' = Len(files) + 1
                 /\ StartChain("large")
                 /\ UNCHANGED <<i, seg_log>>
  /\ UNCHANGED <<cfgvars, unitvars, audio_len, chunks, transcripts, ret, outcome, error>>

\* utils.py:584-589 - the dict appended for a chunk whose chain returned
SegmentResult(text, chunk) ==
  [text |-> text, start_time |-> chunk.start_time, end_time |-> chunk.end_time,
   duration |-> chunk.duration]

\* utils.py:582-602: what the loop keeps of a chain: its text when it returned,
\* nothing when it raised ("continue")
KeptMutant(ts, c, chunk) == Append(ts, SegmentResult(c.text, chunk))
Kept(ts, c, chunk) ==
  IF c.status = "ok" THEN Append(ts, SegmentResult(c.text, chunk)) ELSE ts

\* utils.py:584-592 / app.py:605-613: transcripts.append stands before the
\* unlink, so the chunk is kept whatever the unlink does
KeptThroughUnlinkMutant(ts, c, chunk, del_ok) == IF del_ok THEN Kept(ts, c, chunk) ELSE ts
KeptThroughUnlink(ts, c, chunk, del_ok) == Kept(ts, c, chunk)

\* utils.py:584-602 / app.py:605-626: the tail of one loop pass.  In app.py a
\* failing os.unlink (613) raises into the handler, which tries once more
SegmentReturn ==
  /\ pc = "ret" /\ path = "large"
  /\ seg_log' = Append(seg_log, [res |-> chain.status, text |-> chain.text])
  /\ \E del_ok \in BOOLEAN :
       LET fs == CleanupTempFile(files, temp_path, del_ok) IN
       /\ transcripts' = KeptThroughUnlink(transcripts, chain, chunks[i + 1], del_ok)
       /\ IF impl = "app" /\ chain.status = "ok" /\ ~del_ok
            THEN \E del_ok2 \in BOOLEAN :
                   /\ Within(1 + F(del_ok2))
                   /\ faults' = faults + 1 + F(del_ok2)
                   /\ files' = CleanupTempFile(fs, temp_path, del_ok2)
            ELSE /\ Within(F(del_ok))
                 /\ faults' = faults + F(del_ok)
                 /\ files' = fs
  /\ i' = i + 1
  /\ pc' = "loop"
  /\ retry_count' = 0 /\ attempts' = 0 /\ sleeps' = <<>> /\ errors' = <<>>
  /\ chain' = NoChain
  /\ UNCHANGED <<cfgvars, unitvars, chains, path, progress, temp_path, audio_len, chunks,
                 ret, outcome, error>>

\* utils.py:608-612
AssembleHeaderless(ts, format_type) ==
  IF format_type = "srt" THEN SrtCues(ts, 1)
  ELSE IF format_type = "vtt" THEN VttCues(ts)
  ELSE JoinText(ts)
Assemble(ts, format_type) ==
  IF format_type = "text" THEN JoinText(ts)
  ELSE merge_timestamped_transcripts(ts, format_type)

\* utils.py:568 / app.py:589: "for i, chunk in enumerate(chunks)" is over
LoopExhaustedMutant(k, cs) == k >= Len(cs) - 1
LoopExhausted(k, cs) == k = Len(cs)

\* utils.py:604-622: report 90, assemble, return
Merge ==
  /\ pc = "loop" /\ LoopExhausted(i, chunks)
  /\ progress' = Reported(<<90, 1>>)
  /\ \E cb_ok \in CallbackOutcomes :
       /\ Within(F(cb_ok))
       /\ faults' = faults + F(cb_ok)
       /\ IF ~cb_ok THEN Fail(CallbackError)
          ELSE /\ pc' = "Done"
               /\ ret' = "outcome"
               /\ outcome' = [transcript |-> Assemble(transcripts, response_format),
                              chunk_count |-> Len(chunks),
                              chunks_processed |-> Len(transcripts)]
               /\ UNCHANGED error
  /\ UNCHANGED <<cfgvars, unitvars, chainvars, path, files, temp_path, audio_len, chunks, i,
                 transcripts, seg_log>>

\* ------------------------------------------------------ one invocation
FileSizes == {10 * MiB, 25 * MiB, 25 * MiB + 1}
FileExts == {".wav", ".exe"}
FileMagics == {"RIFF", "MZ"}

Init ==
  /\ impl \in {"utils", "app"}
  /\ max_retries \in {0, ShippedMaxRetries}
  /\ max_file_size_mb \in {DefaultThresholdMb, ShippedThresholdMb}
  /\ chunk_ms = ShippedChunkSeconds * 1000
  /\ file_size \in FileSizes /\ file_ext \in FileExts /\ file_magic \in FileMagics
  /\ response_format \in {"text", "srt", "vtt"}
  /\ has_callback \in BOOLEAN
  /\ pc = "start"
  /\ path = "none" /\ progress = <<>> /\ files = <<>> /\ temp_path = 0
  /\ audio_len = -1 /\ chunks = <<>> /\ i = 0 /\ transcripts = <<>> /\ seg_log = <<>>
  /\ faults = 0
  /\ retry_count = 0 /\ attempts = 0 /\ sleeps = <<>> /\ errors = <<>>
  /\ chain = NoChain /\ chains = 0
  /\ ret = "pending" /\ outcome = NoOutcome /\ error = NoError
  /\ seconds_ms = 0 /\ stamp = NoStamp /\ verdicts = <<>> /\ invocations = <<>>

Next ==
  \/ Validate \/ Decide
  \/ SingleSend \/ SingleCreate \/ SingleTranscribing \/ SingleComplete \/ SingleAbort
  \/ LargeStart \/ Segmenting \/ CountKnown \/ SegmentBegin \/ SegmentReturn \/ Merge
  \/ AttemptSuccess \/ AttemptRateLimited \/ AttemptTransient

Spec == Init /\ [][Next]_vars

\* process_audio_file is straight-line synchronous code: when every remote call
\* returns or raises, and every sleep ends, the step that is next is taken
\* (response_format only selects the assembly function, which is total; the
\* fair runs take one value of it)
InitFair == Init /\ response_format = "text"

FairSpec == InitFair /\ [][Next]_vars /\ WF_vars(Next)

\* ------------------------------------------------ a chain on its own
InitChain ==
  /\ impl \in {"utils", "app"}
  /\ max_retries \in 0..MaxRetriesCfg
  /\ max_file_size_mb = ShippedThresholdMb
  /\ chunk_ms = ShippedChunkSeconds * 1000
  /\ file_size = 0 /\ file_ext = ".wav" /\ file_magic = "RIFF"
  /\ response_format \in {"text", "srt", "vtt"}
  /\ has_callback = FALSE
  /\ pc = "call"
  /\ path = "none" /\ progress = <<>> /\ files = <<>> /\ temp_path = 0
  /\ audio_len = -1 /\ chunks = <<>> /\ i = 0 /\ transcripts = <<>> /\ seg_log = <<>>
  /\ faults = 0
  /\ retry_count = 0 /\ attempts = 0 /\ sleeps = <<>> /\ errors = <<>>
  /\ chain = NoChain /\ chains = 1
  /\ ret = "pending" /\ outcome = NoOutcome /\ error = NoError
  /\ seconds_ms = 0 /\ stamp = NoStamp /\ verdicts = <<>> /\ invocations = <<>>

NextChain == AttemptSuccess \/ AttemptRateLimited \/ AttemptTransient

SpecChain == InitChain /\ [][NextChain]_vars

\* ------------------------------------------------ chunk_audio_file on its own
\* the decoded length and the window: every small pair, and the shipped window
\* of 300 s on a recording of 1000 s
ChunkInputs ==
  ((0..MaxAudioMs) \X {d * 1000 : d \in 1..MaxChunkSeconds})
    \cup {<<1000 * 1000, ShippedChunkSeconds * 1000>>}

InitChunk ==
  /\ impl \in {"utils", "app"}
  /\ max_retries = ShippedMaxRetries
  /\ max_file_size_mb = DefaultThresholdMb
  /\ \E in \in ChunkInputs : audio_len = in[1] /\ chunk_ms = in[2]
  /\ file_size = 25 * MiB /\ file_ext = ".wav" /\ file_magic = "RIFF"
  /\ response_format = "text"
  /\ has_callback = FALSE
  /\ pc = "chunk_call"
  /\ path = "none" /\ progress = <<>> /\ files = <<>> /\ temp_path = 0
  /\ chunks = <<>> /\ i = 0 /\ transcripts = <<>> /\ seg_log = <<>>
  /\ faults = 0
  /\ retry_count = 0 /\ attempts = 0 /\ sleeps = <<>> /\ errors = <<>>
  /\ chain = NoChain /\ chains = 0
  /\ ret = "pending" /\ outcome = NoOutcome /\ error = NoError
  /\ seconds_ms = 0 /\ stamp = NoStamp /\ verdicts = <<>> /\ invocations = <<>>

\* utils.py:441-463 on a decoded audio: the loop and the unlink of the decode file
ChunkAudioFile ==
  /\ pc = "chunk_call"
  /\ chunks' = ChunksFrom(0, chunk_ms, audio_len)
  /\ files' = CleanupTempFile(Append(files, NewFile("decode", 0)), Len(files) + 1, TRUE)
  /\ pc' = "chunk_done"
  /\ UNCHANGED <<cfgvars, unitvars, chainvars, path, progress, temp_path, audio_len, i,
                 transcripts, seg_log, faults, ret, outcome, error>>

NextChunk == ChunkAudioFile

SpecChunk == InitChunk /\ [][NextChunk]_vars

\* ------------------------------------------------ a time formatter on its own
\* every small time, and times around a full minute, a full hour and beyond
TimeInputs ==
  (0..MaxTimeMs) \cup {59999, 60000, 61001, 301001, 3599999, 3600000, 3661001}

InitFormat ==
  /\ impl \in {"utils", "app"}
  /\ max_retries = ShippedMaxRetries
  /\ max_file_size_mb = DefaultThresholdMb
  /\ chunk_ms = ShippedChunkSeconds * 1000
  /\ file_size = 25 * MiB /\ file_ext = ".wav" /\ file_magic = "RIFF"
  /\ response_format = "srt"
  /\ has_callback = FALSE
  /\ pc = "format_call"
  /\ path = "none" /\ progress = <<>> /\ files = <<>> /\ temp_path = 0
  /\ audio_len = -1 /\ chunks = <<>> /\ i = 0 /\ transcripts = <<>> /\ seg_log = <<>>
  /\ faults = 0
  /\ retry_count = 0 /\ attempts = 0 /\ sleeps = <<>> /\ errors = <<>>
  /\ chain = NoChain /\ chains = 0
  /\ ret = "pending" /\ outcome = NoOutcome /\ error = NoError
  /\ seconds_ms \in TimeInputs /\ stamp = NoStamp /\ verdicts = <<>> /\ invocations = <<>>

\* utils.py:686-699: _seconds_to_srt_time(seconds) and _seconds_to_vtt_time(seconds)
FormatTime ==
  /\ pc = "format_call"
  /\ stamp' = [srt |-> seconds_to_srt_time(seconds_ms),
                vtt |-> seconds_to_vtt_time(seconds_ms)]
  /\ pc' = "format_done"
  /\ UNCHANGED <<cfgvars, chainvars, pipevars, seconds_ms, verdicts, invocations>>

NextFormat == FormatTime

SpecFormat == InitFormat /\ [][NextFormat]_vars

\* ------------------------------------------- validate_file_security on its own
\* len(file_bytes), the extension of the file name, and what file_bytes[:8]
\* starts with ("empty": fewer than three bytes)
ValidateSizes == {0, 10 * MiB, 25 * MiB, 25 * MiB + 1}
ValidateExts == {".mp3", ".wav", ".m4a", ".mp4", ".flac", ".ogg", ".WAV", ".Mp3", ".exe", ""}
ValidateMagics == {"ID3", "RIFF", "zero3", "fLaC", "OggS", "MZ", "empty"}

InitValidate ==
  /\ impl \in {"utils", "app"}
  /\ max_retries = ShippedMaxRetries
  /\ max_file_size_mb = DefaultThresholdMb
  /\ chunk_ms = ShippedChunkSeconds * 1000
  /\ file_size \in ValidateSizes /\ file_ext \in ValidateExts
  /\ file_magic \in ValidateMagics
  /\ response_format = "text"
  /\ has_callback = FALSE
  /\ pc = "validate_call"
  /\ path = "none" /\ progress = <<>> /\ files = <<>> /\ temp_path = 0
  /\ audio_len = -1 /\ chunks = <<>> /\ i = 0 /\ transcripts = <<>> /\ seg_log = <<>>
  /\ faults = 0
  /\ retry_count = 0 /\ attempts = 0 /\ sleeps = <<>> /\ errors = <<>>
  /\ chain = NoChain /\ chains = 0
  /\ ret = "pending" /\ outcome = NoOutcome /\ error = NoError
  /\ seconds_ms = 0 /\ stamp = NoStamp /\ verdicts = <<>> /\ invocations = <<>>

\* utils.py:290-323: SecurityManager.validate_file_security(file_bytes, filename),
\* called twice on the same arguments
ValidateCall ==
  /\ pc \in {"validate_call", "validate_again"}
  /\ verdicts' = Append(verdicts, validate_file_security(file_size, file_ext, file_magic))
  /\ pc' = IF pc = "validate_call" THEN "validate_again" ELSE "validate_done"
  /\ UNCHANGED <<cfgvars, chainvars, pipevars, seconds_ms, stamp, invocations>>

NextValidate == ValidateCall

SpecValidate == InitValidate /\ [][NextValidate]_vars

\* ------------------------------------------ two invocations, one processor
\* process_audio_file called twice on one TranscriptionProcessor, the two calls
\* interleaved step by step.  The instance holds client, config, retry_count and
\* max_retries (utils.py:478-482); nothing below __init__ assigns to them.
\* Everything else is a local of the call, kept here per invocation.
Invocations == {1, 2}

\* the text the service gives for the file of chunk seg of invocation k
PairText(k, seg) == <<Digit(k)>> \o RemoteText(seg)

\* the chunk list of a decoded upload of n full windows
PairChunk(n, s) == ChunkAt((s - 1) * chunk_ms, chunk_ms, n * chunk_ms)

NewInvocation(mode, n) ==
  [pc |-> "start", mode |-> mode, nseg |-> n, i |-> 0, temp_path |-> 0,
   retry_count |-> 0, attempts |-> 0, sleeps |-> <<>>, errors |-> <<>>,
   chain |-> NoChain, results |-> <<>>, transcripts |-> <<>>,
   created |-> {}, touched |-> {}, outcome |-> NoOutcome]

\* utils.py:624 - retry_count is a parameter of _call_whisper_api: the frame of
\* invocation k reads and passes on its own (self.retry_count is never used)
FrameOwnerMutant(k) == 1
FrameOwner(k) == k

InitPair ==
  /\ impl = "utils"
  /\ max_retries \in {0, 1}
  /\ max_file_size_mb = DefaultThresholdMb
  /\ chunk_ms = ShippedChunkSeconds * 1000
  /\ file_size = 10 * MiB /\ file_ext = ".wav" /\ file_magic = "RIFF"
  /\ response_format = "text"
  /\ has_callback = FALSE
  /\ pc = "pair"
  /\ path = "none" /\ progress = <<>> /\ files = <<>> /\ temp_path = 0
  /\ audio_len = -1 /\ chunks = <<>> /\ i = 0 /\ transcripts = <<>> /\ seg_log = <<>>
  /\ faults = 0
  /\ retry_count = 0 /\ attempts = 0 /\ sleeps = <<>> /\ errors = <<>>
  /\ chain = NoChain /\ chains = 0
  /\ ret = "pending" /\ outcome = NoOutcome /\ error = NoError
  /\ seconds_ms = 0 /\ stamp = NoStamp /\ verdicts = <<>>
  /\ \E a \in {NewInvocation("single", 1), NewInvocation("large", 1)},
        b \in {NewInvocation("single", 1)} \cup {NewInvocation("large", n) : n \in 1..PairChunks} :
       invocations = [k \in Invocations |-> IF k = 1 THEN a ELSE b]

\* utils.py:519-528 / 575-582: the temp file of the upload or of chunk i + 1 is
\* created (NamedTemporaryFile: a new name) and opened, and a chain starts
PairCreate(k) ==
  LET v == invocations[k]
      p == Len(files) + 1
  IN /\ pc = "pair" /\ v.pc = "start"
     /\ files' = Append(files, IF v.mode = "single" THEN NewFile("single", 0)
                                ELSE NewFile("segment", v.i + 1))
     /\ invocations' =
          [invocations EXCEPT
             ![k].temp_path = p, ![k].created = @ \cup {p}, ![k].touched = @ \cup {p},
             ![k].pc = "call", ![k].attempts = 0, ![k].sleeps = <<>>,
             ![k].errors = <<>>, ![k].chain = NoChain,
             ![FrameOwner(k)].retry_count = 0]
     /\ UNCHANGED <<cfgvars, pc, chainvars, path, progress, temp_path, audio_len, chunks,
                    i, transcripts, seg_log, faults, ret, outcome, error,
                    seconds_ms, stamp, verdicts>>

\* utils.py:624-664: one frame of the chain of invocation k; resp is what the
\* remote call does
PairFrame(v, k, rc, resp) ==
  IF resp = "ok"
    THEN [v EXCEPT !.attempts = @ + 1, !.pc = "ret",
                   !.chain = [status |-> "ok",
                              text |-> PairText(k, IF v.mode = "large" THEN v.i + 1 ELSE 0),
                              etype |-> "none", cause |-> 0]]
  ELSE IF IsRateLimit(resp)
    THEN IF RateLimitRetry(rc)
           THEN [v EXCEPT !.attempts = @ + 1, !.errors = Append(@, resp),
                          !.sleeps = RateLimitSleeps(@, rc)]
           ELSE [v EXCEPT !.attempts = @ + 1, !.errors = Append(@, resp),
                          !.sleeps = RateLimitSleeps(@, rc), !.pc = "ret",
                          !.chain = TerminalError(resp, v.attempts + 1)]
  ELSE IF TransientRetry(rc, max_retries)
         THEN [v EXCEPT !.attempts = @ + 1, !.errors = Append(@, resp),
                        !.sleeps = Append(@, BackoffWait(rc))]
         ELSE [v EXCEPT !.attempts = @ + 1, !.errors = Append(@, resp), !.pc = "ret",
                        !.chain = TerminalError(resp, v.attempts + 1)]

\* the retry_count the next frame is called with
PairRetryCount(rc, resp) ==
  IF resp = "ok" THEN rc
  ELSE IF IsRateLimit(resp) THEN (IF RateLimitRetry(rc) THEN rc + 1 ELSE rc)
  ELSE IF TransientRetry(rc, max_retries) THEN rc + 1 ELSE rc

PairAttempt(k) ==
  LET rc == invocations[FrameOwner(k)].retry_count
  IN /\ pc = "pair" /\ invocations[k].pc = "call"
     /\ \E resp \in {"ok", "rate", "transient"} :
          invocations' =
            [invocations EXCEPT
               ![k] = PairFrame(@, k, rc, resp),
               ![FrameOwner(k)].retry_count = PairRetryCount(rc, resp)]
     /\ UNCHANGED <<cfgvars, pc, chainvars, pipevars, seconds_ms, stamp, verdicts>>

\* utils.py:530-548 / 584-622: the chain of invocation k has ended: the unlink
\* of its temp file, then the outcome, the error, or the next chunk
PairAfterChain(v) ==
  LET w == [v EXCEPT !.touched = @ \cup {v.temp_path}, !.results = Append(@, v.chain.status)]
  IN IF v.mode = "single"
       THEN IF v.chain.status = "ok"
              THEN [w EXCEPT !.pc = "done", !.outcome = SingleOutcome(v.chain.text)]
              ELSE [w EXCEPT !.pc = "failed"]
       ELSE LET ts == Kept(v.transcripts, v.chain, PairChunk(v.nseg, v.i + 1))
            IN IF LoopExhausted(v.i + 1, [s \in 1..v.nseg |-> PairChunk(v.nseg, s)])
                 THEN [w EXCEPT !.transcripts = ts, !.i = @ + 1, !.pc = "done",
                                !.outcome = [transcript |-> Assemble(ts, response_format),
                                             chunk_count |-> v.nseg,
                                             chunks_processed |-> Len(ts)]]
                 ELSE [w EXCEPT !.transcripts = ts, !.i = @ + 1, !.pc = "start"]

PairReturn(k) ==
  /\ pc = "pair" /\ invocations[k].pc = "ret"
  /\ files' = CleanupTempFile(files, invocations[k].temp_path, TRUE)
  /\ invocations' = [invocations EXCEPT ![k] = PairAfterChain(@)]
  /\ UNCHANGED <<cfgvars, pc, chainvars, path, progress, temp_path, audio_len, chunks,
                 i, transcripts, seg_log, faults, ret, outcome, error,
                 seconds_ms, stamp, verdicts>>

NextPair == \E k \in Invocations : PairCreate(k) \/ PairAttempt(k) \/ PairReturn(k)

SpecPair == InitPair /\ [][NextPair]_vars

\* ================================================================ claims
Ended == pc \in {"Done", "Failed"}

\* the invocation took the segmented path
Segmented == file_size > max_file_size_mb * MiB

\* the numbers of the chunks whose chain returned a text
OkSegments == {k \in 1..Len(seg_log) : seg_log[k].res = "ok"}

\* the texts of the chunks of S, lowest number first, one space between two
RECURSIVE SpaceJoined(_)
SpaceJoined(S) ==
  IF S = {} THEN <<>>
  ELSE LET hi == CHOOSE k \in S : \A j \in S : j <= k IN
         IF S = {hi} THEN RemoteText(hi)
         ELSE SpaceJoined(S \ {hi}) \o <<" ">> \o RemoteText(hi)

\* C1: a segmented invocation with response format "text" returns the texts of
\* the chunks whose chain succeeded, in chunk order with one space between two
\* and the failed chunks left out; chunk_count is the number of chunks and
\* chunks_processed the number of chunks whose chain succeeded.
C1_PartialTranscript ==
  (pc = "Done" /\ Segmented /\ response_format = "text") =>
     /\ outcome.transcript = SpaceJoined(OkSegments)
     /\ outcome.chunk_count = Len(seg_log)
     /\ outcome.chunks_processed = Cardinality(OkSegments)

\* chunk 2 of 4 failed: texts 1, 3, 4 and chunks_processed = 3
C1_Witness ==
  /\ pc = "Done" /\ Segmented /\ response_format = "text"
  /\ Len(seg_log) = 4
  /\ seg_log[2].res = "fatal"
  /\ OkSegments = {1, 3, 4}
  /\ outcome.chunks_processed = 3
  /\ outcome.transcript = <<"w", "1", " ", "w", "3", " ", "w", "4">>

\* C2: in single-file mode a chain that ends in a fatal failure makes
\* process_audio_file raise to its caller: no normal return, no outcome, no
\* report of 100.
C2_SingleFatalRaises ==
  (Ended /\ path = "single" /\ chain.status = "fatal") =>
     /\ ret = "raised"
     /\ outcome = NoOutcome
     /\ \A k \in 1..Len(progress) : progress[k] # <<100, 1>>

AllErrors(kind) == \A k \in 1..Len(errors) : errors[k] = kind

\* C3: a chain whose remote call always fails with a non-rate-limit error makes
\* exactly max_retries + 1 remote calls (4 for max_retries = 3) and then raises
\* the terminal API error.
C3_TransientAttempts ==
  (AllErrors("transient") /\ chain.status # "ok") =>
     /\ attempts <= max_retries + 1
     /\ (pc = "ret") = (attempts = max_retries + 1)
     /\ pc = "ret" => chain.status = "fatal" /\ chain.etype = "API_ERROR"
     /\ pc = "ret" /\ max_retries = 3 => attempts = 4

C3_Witness ==
  /\ pc = "ret" /\ chain.status = "fatal" /\ max_retries = 3
  /\ errors = <<"transient", "transient", "transient", "transient">>
  /\ attempts = 4

\* C4: a chain whose remote call always signals a rate limit makes 4 remote
\* calls (3 retries) whatever max_retries is, and then ends in the terminal
\* failure that carries the message of the last error.
C4_RateLimitAttempts ==
  (AllErrors("rate") /\ chain.status # "ok") =>
     /\ attempts <= 4
     /\ (pc = "ret") = (attempts = 4)
     /\ pc = "ret" => chain.status = "fatal" /\ chain.cause = 4

C4_Witness ==
  /\ pc = "ret" /\ chain.status = "fatal" /\ max_retries = 0
  /\ errors = <<"rate", "rate", "rate", "rate">>
  /\ attempts = 4 /\ chain.cause = 4

\* C5: rate limit, rate limit, success: the chain returns the text and has
\* slept exactly twice, 5 seconds each time.
C5_RateLimitThenSuccess ==
  (errors = <<"rate", "rate">> /\ chain.status = "ok") =>
     /\ chain.text = RemoteText(0)
     /\ attempts = 3
     /\ sleeps = <<5, 5>>

C5_Witness ==
  /\ pc = "ret" /\ chain.status = "ok" /\ errors = <<"rate", "rate">>
  /\ sleeps = <<5, 5>> /\ max_retries = 0

\* C6: the retry after the failure of attempt n (from 0) comes after exactly one
\* sleep: 2^n seconds after another error, 5 seconds after a rate limit; an
\* always-failing chain with max_retries = 3 sleeps 1, 2, 4.
C6_SleepBeforeRetry ==
  /\ retry_count <= Len(sleeps)
  /\ pc = "call" => Len(sleeps) = retry_count
  /\ \A n \in 0..(retry_count - 1) :
       sleeps[n + 1] = IF errors[n + 1] = "rate" THEN 5
                       ELSE <<1, 2, 4, 8, 16, 32, 64>>[n + 1]
  /\ (pc = "ret" /\ chain.status = "fatal" /\ max_retries = 3 /\ AllErrors("transient"))
        => sleeps = <<1, 2, 4>>

C6_Witness ==
  /\ pc = "ret" /\ chain.status = "fatal" /\ max_retries = 3
  /\ errors = <<"transient", "transient", "transient", "transient">>
  /\ sleeps = <<1, 2, 4>>

Rejected ==
  \/ file_size > 25 * 1024 * 1024
  \/ file_ext \notin {".wav", ".WAV", ".mp3", ".Mp3", ".m4a", ".mp4", ".flac", ".ogg"}
  \/ file_magic \notin {"ID3", "RIFF", "zero3", "fLaC", "OggS"}

\* C8: a rejected input ends the invocation with a security error and nothing
\* else: no temp file, no remote call, no segmentation, no progress report.
C8_RejectedDoesNothing ==
  (Rejected /\ pc # "start") =>
     /\ pc = "Failed" /\ error.etype = "SECURITY_ERROR"
     /\ ret \in {"raised", "None"} /\ outcome = NoOutcome
     /\ files = <<>> /\ attempts = 0 /\ progress = <<>>
     /\ chunks = <<>> /\ audio_len = -1

C8_Witness ==
  /\ pc = "Failed" /\ file_ext = ".exe" /\ has_callback
  /\ error = [etype |-> "SECURITY_ERROR", cause |-> 0, reason |-> "bad_extension"]

\* C9: when the audio cannot be decoded on the segmented path, chunk_audio_file
\* returns [] and the invocation ends in Failed, not in Done with an outcome.
C9_DecodeFailureFails ==
  (Segmented /\ Ended /\ audio_len = -1 /\ Len(files) = 1 /\ files[1].owner = "decode") =>
     /\ chunks = <<>>
     /\ pc = "Failed" /\ ret # "outcome"

RECURSIVE SumDuration(_)
SumDuration(cs) == IF cs = <<>> THEN 0 ELSE cs[1].duration + SumDuration(Tail(cs))

CeilDiv(a, b) == (a + b - 1) \div b

\* C11: a decoded length T cut with window D gives ceil(T / D) chunks; chunk k
\* starts at (k - 1) * D; every chunk but the last lasts D and the last lasts
\* T - D * (count - 1); T = 1000 s with D = 300 s gives durations 300, 300,
\* 300, 100 and start times 0, 300, 600, 900.
C11_ChunkCount ==
  pc = "chunk_done" =>
     LET count == CeilDiv(audio_len, chunk_ms) IN
       /\ Len(chunks) = count
       /\ \A k \in 1..count :
            /\ chunks[k].start_time = (k - 1) * chunk_ms
            /\ chunks[k].duration = IF k < count THEN chunk_ms
                                    ELSE audio_len - chunk_ms * (count - 1)
       /\ (audio_len = 1000 * 1000 /\ chunk_ms = 300 * 1000) =>
            /\ [k \in 1..count |-> chunks[k].duration] = <<300000, 300000, 300000, 100000>>
            /\ [k \in 1..count |-> chunks[k].start_time] = <<0, 300000, 600000, 900000>>

C11_Witness ==
  /\ pc = "chunk_done" /\ audio_len = 1000 * 1000 /\ chunk_ms = 300 * 1000
  /\ Len(chunks) = 4
  /\ chunks[4].start_time = 900000 /\ chunks[4].duration = 100000

\* the invocation is, or was, in _process_single_file / in _process_large_file
OnSinglePath == pc \in {"single", "single_create", "single_transcribing"} \/ path = "single"
OnLargePath == pc \in {"large", "segmenting", "count_known", "loop"} \/ path = "large"

\* C12: should_chunk_file is true for a size above the threshold and false for
\* a size at or below it, a size equal to the threshold included; the
\* invocation goes to _process_large_file exactly when it is true.
C12_ShouldChunk ==
  /\ should_chunk_file(file_size, max_file_size_mb)
        = (file_size > max_file_size_mb * 1024 * 1024)
  /\ ~should_chunk_file(max_file_size_mb * 1024 * 1024, max_file_size_mb)
  /\ should_chunk_file(max_file_size_mb * 1024 * 1024 + 1, max_file_size_mb)
  /\ OnLargePath => file_size > max_file_size_mb * 1024 * 1024
  /\ OnSinglePath => file_size <= max_file_size_mb * 1024 * 1024
  /\ pc = "Done" => (outcome.chunks_processed # -1)
                      = (file_size > max_file_size_mb * 1024 * 1024)

\* a size equal to the threshold is sent as one file
C12_Witness ==
  /\ pc = "single" /\ file_size = 25 * 1024 * 1024 /\ max_file_size_mb = 25

\* the reports of the chunk loop over n chunks: 25 + (k / n) * 60 for k = 0..n-1
Ramp(n) == [k \in 1..n |-> <<25 * n + 60 * (k - 1), n>>]

\* C13: a segmented invocation that returns has reported, in this order, 10,
\* 20, 25, one value per chunk rising linearly from 25 towards 85, 90 and
\* finally 100.
C13_SegmentedProgress ==
  (pc = "Done" /\ Segmented /\ has_callback) =>
     progress = <<(<<10, 1>>), (<<20, 1>>), (<<25, 1>>)>> \o Ramp(Len(chunks))
                  \o <<(<<90, 1>>), (<<100, 1>>)>>

\* 100 has been reported
Has100 == \E k \in 1..Len(progress) : progress[k] = <<100, 1>>

\* C14: an invocation on the single-file path that returns has reported
\* exactly 10, 30, 60, 100 in this order; 100 is reported if and only if the
\* chain returned a text.
C14_SingleProgress ==
  (~Segmented /\ has_callback) =>
     /\ pc = "Done" =>
          progress = <<(<<10, 1>>), (<<30, 1>>), (<<60, 1>>), (<<100, 1>>)>>
     /\ Has100 => chain.status = "ok"
     /\ Ended => (Has100 = (chain.status = "ok"))

C14_Witness ==
  /\ pc = "Done" /\ path = "single" /\ has_callback /\ chain.status = "ok"
  /\ progress = <<(<<10, 1>>), (<<30, 1>>), (<<60, 1>>), (<<100, 1>>)>>

\* --- reading a time stamp back
DigitChars == <<"0", "1", "2", "3", "4", "5", "6", "7", "8", "9">>
IsDigit(c) == \E d \in 1..10 : DigitChars[d] = c
DigitVal(c) == (CHOOSE d \in 1..10 : DigitChars[d] = c) - 1
AllDigits(str) == \A k \in 1..Len(str) : IsDigit(str[k])

RECURSIVE Num(_)
Num(str) ==
  IF str = <<>> THEN 0
  ELSE 10 * Num(SubSeq(str, 1, Len(str) - 1)) + DigitVal(str[Len(str)])

\* str is HH:MM:SS<sep>mmm
WellFormedStamp(str, sep) ==
  /\ Len(str) = 12
  /\ str[3] = ":" /\ str[6] = ":" /\ str[9] = sep
  /\ AllDigits(SubSeq(str, 1, 2)) /\ AllDigits(SubSeq(str, 4, 5))
  /\ AllDigits(SubSeq(str, 7, 8)) /\ AllDigits(SubSeq(str, 10, 12))

StampFields(str) ==
  [h |-> Num(SubSeq(str, 1, 2)), m |-> Num(SubSeq(str, 4, 5)),
   s |-> Num(SubSeq(str, 7, 8)), ms |-> Num(SubSeq(str, 10, 12))]

\* --- reading an assembled transcript back
\* the lines of str, cut at every "\n"
RECURSIVE LinesOf(_)
LinesOf(str) ==
  IF str = <<>> THEN <<>>
  ELSE LET n == CHOOSE k \in 1..(Len(str) + 1) :
                   /\ k = Len(str) + 1 \/ str[k] = "\n"
                   /\ \A j \in 1..(k - 1) : str[j] # "\n"
       IN IF n > Len(str) THEN <<str>>
          ELSE <<SubSeq(str, 1, n - 1)>> \o LinesOf(SubSeq(str, n + 1, Len(str)))

\* the runs of lines between blank lines
RECURSIVE Blocks(_)
Blocks(ls) ==
  IF ls = <<>> THEN <<>>
  ELSE IF ls[1] = <<>> THEN Blocks(Tail(ls))
  ELSE LET n == CHOOSE k \in 2..(Len(ls) + 1) :
                   /\ k = Len(ls) + 1 \/ ls[k] = <<>>
                   /\ \A j \in 1..(k - 1) : ls[j] # <<>>
       IN <<SubSeq(ls, 1, n - 1)>> \o Blocks(SubSeq(ls, n + 1, Len(ls)))

\* the members of a set of numbers, lowest first
RECURSIVE Ascending(_)
Ascending(S) ==
  IF S = {} THEN <<>>
  ELSE LET lo == CHOOSE k \in S : \A j \in S : k <= j
       IN <<lo>> \o Ascending(S \ {lo})

Arrow == <<" ", "-", "-", ">", " ">>

\* C15: in an SRT transcript the k-th cue has the number k (from 1, none left
\* out) and the time stamps and the text of the k-th chunk whose chain
\* succeeded, whichever chunks before it were skipped.
C15_SrtCueNumbers ==
  (pc = "Done" /\ Segmented /\ response_format = "srt") =>
     LET cues == Blocks(LinesOf(outcome.transcript))
         ok == Ascending(OkSegments)
     IN /\ Len(cues) = Len(ok)
        /\ \A k \in 1..Len(cues) :
             /\ Len(cues[k]) = 3
             /\ AllDigits(cues[k][1]) /\ Num(cues[k][1]) = k
             /\ cues[k][2] = seconds_to_srt_time(chunks[ok[k]].start_time) \o Arrow
                                \o seconds_to_srt_time(chunks[ok[k]].end_time)
             /\ cues[k][3] = RemoteText(ok[k])

\* chunk 1 of 4 was skipped: cues 1, 2, 3 are chunks 2, 3, 4
C15_Witness ==
  /\ pc = "Done" /\ Segmented /\ response_format = "srt"
  /\ Len(seg_log) = 4 /\ OkSegments = {2, 3, 4}
  /\ SubSeq(outcome.transcript, 1, 14)
       = <<"1", "\n", "0", "0", ":", "0", "5", ":", "0", "0", ",", "0", "0", "0">>

\* the time a stamp HH:MM:SS,mmm or HH:MM:SS.mmm denotes, in ms
StampMs(str) ==
  LET f == StampFields(str) IN ((f.h * 60 + f.m) * 60 + f.s) * 1000 + f.ms

\* the cue read back from its lines: the stamps are on the line before the text
CueRead(cue) ==
  LET line == cue[Len(cue) - 1]
  IN [start_time |-> StampMs(SubSeq(line, 1, 12)),
      end_time |-> StampMs(SubSeq(line, 18, 29)),
      text |-> cue[Len(cue)]]

\* C16: reading the cues of an assembled SRT or VTT transcript back gives the
\* (start_time, end_time, text) of the segment results it was assembled from,
\* in the same order, times to the millisecond.
C16_RoundTrip ==
  (pc = "Done" /\ Segmented /\ response_format \in {"srt", "vtt"}) =>
     LET blocks == Blocks(LinesOf(outcome.transcript))
         cues == IF response_format = "vtt" THEN Tail(blocks) ELSE blocks
     IN /\ response_format = "vtt" => blocks[1] = << <<"W", "E", "B", "V", "T", "T">> >>
        /\ [k \in 1..Len(cues) |-> CueRead(cues[k])]
             = [k \in 1..Len(transcripts) |->
                  [start_time |-> transcripts[k].start_time,
                   end_time |-> transcripts[k].end_time,
                   text |-> transcripts[k].text]]

\* C17: validate_file_security accepts exactly the buffers of at most 25 MiB
\* whose lower-cased extension is mp3, wav, m4a, mp4, flac or ogg and which
\* start with ID3, RIFF, three zero bytes, fLaC or OggS; a refusal gives the
\* reason of the first failing check in the order size, extension, signature.
C17_ValidatorDecision ==
  \A k \in 1..Len(verdicts) :
     LET size_ok == file_size <= 25 * 1024 * 1024
         ext_ok == file_ext \in {".mp3", ".Mp3", ".wav", ".WAV", ".m4a", ".mp4",
                                 ".flac", ".ogg"}
         magic_ok == file_magic \in {"ID3", "RIFF", "zero3", "fLaC", "OggS"}
     IN /\ verdicts[k].ok = (size_ok /\ ext_ok /\ magic_ok)
        /\ verdicts[k].reason = IF ~size_ok THEN "too_large"
                                ELSE IF ~ext_ok THEN "bad_extension"
                                ELSE IF ~magic_ok THEN "not_audio"
                                ELSE "OK"

\* an upper-case extension on a buffer of exactly 25 MiB is accepted
C17_Witness ==
  /\ pc = "validate_done" /\ file_size = 25 * 1024 * 1024 /\ file_ext = ".WAV"
  /\ file_magic = "zero3"
  /\ verdicts[1] = [ok |-> TRUE, reason |-> "OK"]

\* C18: an invocation on the single-file path that returns has created one
\* temp file and run one chain, and returns chunk_count = 1 with the text the
\* remote call gave; a valid input at or below the threshold whose chain
\* returns a text, with nothing else failing, does return.
C18_SingleFileOutcome ==
  /\ (pc = "Done" /\ ~Segmented) =>
        /\ Len(files) = 1 /\ files[1].owner = "single"
        /\ chains = 1 /\ path = "single" /\ chain.status = "ok"
        /\ ret = "outcome"
        /\ outcome.chunk_count = 1
        /\ outcome.transcript = chain.text /\ outcome.transcript = <<"w", "0">>
  /\ (Ended /\ ~Segmented /\ chain.status = "ok" /\ faults = 0) => pc = "Done"

\* 10 MiB under the threshold of 20 MB, the call succeeding at once
C18_Witness ==
  /\ pc = "Done" /\ file_size = 10 * 1024 * 1024 /\ max_file_size_mb = 20
  /\ file_ext = ".wav" /\ attempts = 1 /\ chains = 1
  /\ outcome = [transcript |-> <<"w", "0">>, chunk_count |-> 1, chunks_processed |-> -1]

\* C19: for a time of a whole number of milliseconds both formatters give
\* hours = floor(s / 3600), minutes = floor((s mod 3600) / 60), seconds =
\* floor(s mod 60) and millis = round((s mod 1) * 1000), as HH:MM:SS,mmm (SRT)
\* and HH:MM:SS.mmm (VTT), with seconds in 0..59 and millis in 0..999.
C19_TimeFormat ==
  pc = "format_done" =>
     \A f \in {"srt", "vtt"} :
        LET str == IF f = "srt" THEN stamp.srt ELSE stamp.vtt
            sep == IF f = "srt" THEN "," ELSE "."
        IN /\ WellFormedStamp(str, sep)
           /\ StampFields(str) = [h |-> seconds_ms \div 3600000,
                                  m |-> (seconds_ms % 3600000) \div 60000,
                                  s |-> (seconds_ms % 60000) \div 1000,
                                  ms |-> seconds_ms % 1000]
           /\ StampFields(str).s \in 0..59 /\ StampFields(str).ms \in 0..999

Max(a, b) == IF a < b THEN b ELSE a

\* C29: the two branches of _call_whisper_api count with the one retry_count:
\* whatever the mix of errors, a chain makes at most max(3, max_retries) + 1
\* remote calls; a rate-limit error is retried only if fewer than 3 attempts of
\* either kind came before it, another error only if fewer than max_retries.
C29_SharedCounter ==
  /\ attempts <= Max(3, max_retries) + 1
  /\ attempts = Len(errors) + (IF chain.status = "ok" THEN 1 ELSE 0)
  /\ pc = "call" => retry_count = Len(errors)
  /\ \A n \in 1..Len(errors) :
       LET retried == n < Len(errors) \/ pc = "call" \/ chain.status = "ok"
       IN retried = IF errors[n] = "rate" THEN n - 1 < 3 ELSE n - 1 < max_retries

\* max_retries = 4: a rate-limit error after three other errors is not retried
C29_Witness ==
  /\ max_retries = 4 /\ pc = "ret" /\ chain.status = "fatal"
  /\ errors = <<"transient", "transient", "transient", "rate">>
  /\ attempts = 4

\* C30: a chain sleeps once per retry on the path of other errors and once per
\* attempt on the rate-limit path: always failing with other errors it sleeps
\* max_retries times and raises right after its last attempt; always
\* rate-limited it sleeps 5 s after each of its 4 attempts, the last one too.
C30_SleepCounts ==
  /\ Len(sleeps) = Len(errors)
                     - (IF chain.status = "fatal" /\ errors[Len(errors)] = "transient"
                          THEN 1 ELSE 0)
  /\ AllErrors("transient") =>
       /\ Len(sleeps) = retry_count
       /\ (pc = "ret" /\ chain.status = "fatal") =>
            Len(sleeps) = max_retries /\ attempts = max_retries + 1
  /\ AllErrors("rate") =>
       /\ Len(sleeps) = Len(errors)
       /\ \A k \in 1..Len(sleeps) : sleeps[k] = 5
       /\ (pc = "ret" /\ chain.status = "fatal") =>
            sleeps = <<5, 5, 5, 5>> /\ attempts = 4

C30_Witness ==
  /\ pc = "ret" /\ chain.status = "fatal" /\ max_retries = 2
  /\ errors = <<"rate", "rate", "rate", "rate">>
  /\ sleeps = <<5, 5, 5, 5>>

\* p <= q for two percentages <<numerator, denominator>>
Leq(p, q) == p[1] * q[2] <= q[1] * p[2]

\* C26: the percentages an invocation reports are all in 0..100 and never go
\* down from one report to the next; on the segmented path the report of each
\* chunk is at least 25 and below 85.
C26_ProgressMonotone ==
  /\ \A k \in 1..Len(progress) :
       /\ progress[k][2] > 0
       /\ Leq(<<0, 1>>, progress[k]) /\ Leq(progress[k], <<100, 1>>)
  /\ \A k \in 1..(Len(progress) - 1) : Leq(progress[k], progress[k + 1])
  /\ Segmented =>
       \A k \in 4..Len(progress) :
          k <= 3 + Len(chunks) =>
             /\ Leq(<<25, 1>>, progress[k])
             /\ progress[k][1] < 85 * progress[k][2]

\* four chunks: the last chunk is reported at 25 + 60 * 3 / 4 = 70
C26_Witness ==
  /\ pc = "Done" /\ Segmented /\ has_callback /\ Len(chunks) = 4
  /\ Len(progress) = 8
  /\ progress[4] = <<100, 4>> /\ progress[7] = <<280, 4>> /\ progress[8] = <<90, 1>>

\* C28: with the shipped threshold max_file_size_mb = 25 no invocation enters
\* _process_large_file: an upload the validator accepts has at most 25 MiB,
\* which is not above the threshold, so it is sent as one file, and nothing is
\* ever segmented.
C28_ShippedNeverSegments ==
  max_file_size_mb = ShippedThresholdMb =>
     /\ ~OnLargePath
     /\ audio_len = -1 /\ chunks = <<>> /\ seg_log = <<>>
     /\ (pc \notin {"start", "deciding", "Failed"}) => OnSinglePath
     /\ (pc = "Failed" /\ error.etype # "SECURITY_ERROR" /\ progress # <<>>)
           => Len(progress) = 1 \/ progress[2] = <<30, 1>>
     /\ pc = "Done" => outcome.chunks_processed = -1

\* the largest upload the validator accepts, returned by _process_single_file
C28_Witness ==
  /\ pc = "Done" /\ max_file_size_mb = ShippedThresholdMb
  /\ file_size = MaxUploadMiB * MiB /\ path = "single"
  /\ validate_file_security(file_size, file_ext, file_magic).ok

\* what _process_large_file returns when no chunk was transcribed
NoSegmentText(format_type) ==
  IF format_type = "vtt" THEN <<"W", "E", "B", "V", "T", "T", "\n", "\n">> ELSE <<>>

\* the part of C27 that does not depend on the text returned
C27_NoRemoteFailure ==
  /\ (pc = "Failed" /\ OnLargePath) => error.etype = "CALLBACK"
  /\ (pc = "Failed" /\ Segmented) => error.etype \in {"CALLBACK", "SECURITY_ERROR"}
  /\ (pc = "Done" /\ Segmented) =>
        /\ ret = "outcome"
        /\ outcome.chunks_processed = Cardinality(OkSegments)
        /\ outcome.chunks_processed <= outcome.chunk_count
        /\ outcome.chunk_count = Len(chunks)

\* C27 as stated: an invocation on the segmented path never fails because of
\* the remote call; when every chunk fails it returns an empty transcript and
\* chunks_processed = 0; chunks_processed <= chunk_count in every outcome.
C27_AllFailEmpty ==
  /\ C27_NoRemoteFailure
  /\ (pc = "Done" /\ Segmented /\ chunks # <<>> /\ OkSegments = {}) =>
        outcome.chunks_processed = 0 /\ outcome.transcript = <<>>

\* C27: an invocation on the segmented path never fails because of the remote
\* call; when every chunk fails it returns chunks_processed = 0 and a
\* transcript without any chunk text: the empty string for "text" and "srt",
\* the bare "WEBVTT" header for "vtt"; chunks_processed <= chunk_count in every
\* outcome.
C27_AllFailNoText ==
  /\ C27_NoRemoteFailure
  /\ (pc = "Done" /\ Segmented /\ chunks # <<>> /\ OkSegments = {}) =>
        outcome.chunks_processed = 0 /\ outcome.transcript = NoSegmentText(response_format)

\* two chunks, both chains ended in a terminal error, "vtt" asked for
C27_Witness ==
  /\ pc = "Done" /\ Segmented /\ response_format = "vtt"
  /\ Len(chunks) = 2 /\ Len(seg_log) = 2
  /\ seg_log[1].res = "fatal" /\ seg_log[2].res = "fatal"
  /\ outcome.chunks_processed = 0 /\ outcome.chunk_count = 2
  /\ outcome.transcript = <<"W", "E", "B", "V", "T", "T", "\n", "\n">>

\* the temp files of chunks, and those of them still on disk
SegFiles == {f \in 1..Len(files) : files[f].owner = "segment"}
SegFilesOnDisk == {f \in SegFiles : OnDisk(files, f)}

\* chunks are taken one after another in input order: the file and the chain in
\* progress belong to chunk i + 1, every earlier chunk has its entry in the log
\* and its file has been through its unlink
C21_InOrder ==
  /\ \A f, g \in SegFiles : f < g => files[f].seg < files[g].seg
  /\ \A f \in SegFiles :
       files[f].st = "exists" =>
          /\ pc \in {"call", "ret"} /\ path = "large"
          /\ temp_path = f /\ files[f].seg = i + 1
  /\ (pc \in {"call", "ret"} /\ path = "large") =>
       /\ Len(seg_log) = i /\ i < Len(chunks)
       /\ temp_path \in SegFiles /\ files[temp_path].seg = i + 1
       /\ files[temp_path].st = "exists"
       /\ \A f \in SegFiles \ {temp_path} :
             files[f].seg <= i /\ files[f].st \in {"deleted", "stuck"}
  /\ (pc = "loop") => Len(seg_log) = i
  /\ (pc \notin {"call", "ret"} \/ path # "large") =>
        (attempts = 0 /\ errors = <<>>) \/ path = "single"
  /\ \A k \in 1..(Len(transcripts) - 1) :
       transcripts[k].start_time < transcripts[k + 1].start_time

ChainedSegments == {k \in 1..Len(seg_log) : seg_log[k].res \in {"ok", "fatal"}}

\* the loop is over: the "merging" report and the assembly are next or done
AssemblyReached ==
  Segmented /\ (pc = "Done" \/ (pc = "loop" /\ i = Len(chunks))
                  \/ (progress # <<>> /\ progress[Len(progress)] = <<90, 1>>))

\* assembly comes after the pass of every chunk and nothing is called after it
C22_AfterEveryPass ==
  /\ AssemblyReached =>
       /\ Len(seg_log) = Len(chunks) /\ i = Len(chunks)
       /\ \A k \in 1..Len(seg_log) : seg_log[k].res \in {"ok", "fatal", "no_file", "callback"}
       /\ pc # "call" /\ pc # "ret"
       /\ attempts = 0 /\ chain = NoChain
       /\ chains = Cardinality(ChainedSegments)
  /\ (Segmented /\ progress # <<>> /\ progress[Len(progress)] = <<90, 1>>)
        => pc \in {"Done", "Failed"}
  /\ (Segmented /\ pc = "Done") => outcome.chunks_processed = Cardinality(OkSegments)

\* C22 as stated: the "merging" report and the assembly come only after every
\* chunk has been attempted, every chunk has had exactly one transcription
\* chain, and no remote call is made once assembly has started.
C22_ExactlyOneChain ==
  /\ C22_AfterEveryPass
  /\ AssemblyReached => chains = Len(chunks)

\* C22: the "merging" report and the assembly come only after the loop pass of
\* every chunk is over; every chunk has had at most one transcription chain,
\* exactly one unless its progress report raised or its temp file could not be
\* created; no remote call is made once assembly has started.
C22_AtMostOneChain ==
  /\ C22_AfterEveryPass
  /\ AssemblyReached =>
       /\ chains <= Len(chunks)
       /\ chains = Len(chunks)
             - Cardinality({k \in 1..Len(seg_log) : seg_log[k].res \in {"no_file", "callback"}})

\* two chunks: no temp file for the first (no chain), the second transcribed
C22_Witness ==
  /\ pc = "Done" /\ Segmented /\ Len(chunks) = 2
  /\ Len(seg_log) = 2 /\ seg_log[1].res = "no_file" /\ seg_log[2].res = "ok"
  /\ chains = 1 /\ outcome.chunks_processed = 1

\* the list _process_large_file has when only the remote results decide: the
\* chunks whose chain returned, in input order
RECURSIVE ExpectedFrom(_)
ExpectedFrom(k) ==
  IF k > Len(seg_log) THEN <<>>
  ELSE (IF seg_log[k].res = "ok" THEN <<SegmentResult(seg_log[k].text, chunks[k])>> ELSE <<>>)
         \o ExpectedFrom(k + 1)

\* the files whose unlink failed
StuckFiles == {f \in 1..Len(files) : files[f].st = "stuck"}

\* C25: a failing deletion of a temp file is never surfaced and never changes
\* the result: the outcome of either path is the one the remote results alone
\* give, whatever the unlinks did; a chunk whose file could not be deleted is
\* still in the transcript and counted; no failure is caused by a deletion.
C25_DeletionFailureSilent ==
  /\ (pc = "Done" /\ Segmented) =>
        /\ ret = "outcome"
        /\ outcome = [transcript |-> Assemble(ExpectedFrom(1), response_format),
                      chunk_count |-> Len(chunks),
                      chunks_processed |-> Len(ExpectedFrom(1))]
  /\ (pc = "Done" /\ path = "single") =>
        /\ ret = "outcome"
        /\ chain.status = "ok" /\ outcome = SingleOutcome(chain.text)
  /\ \A f \in StuckFiles :
        (files[f].owner = "segment" /\ Len(seg_log) >= files[f].seg
           /\ seg_log[files[f].seg].res = "ok")
        => \E t \in 1..Len(transcripts) :
              /\ transcripts[t].start_time = chunks[files[f].seg].start_time
              /\ transcripts[t].text = seg_log[files[f].seg].text
  /\ pc = "Failed" =>
        \/ error.etype = "SECURITY_ERROR" /\ files = <<>>
        \/ error.etype = "CALLBACK" /\ has_callback
        \/ error.etype = "TEMP_FILE" /\ \A f \in 1..Len(files) : files[f].owner # "single"
        \/ error.etype \in {"RATE_LIMIT", "API_ERROR"} /\ path = "single"
              /\ chain.status = "fatal" /\ error.cause = chain.cause

\* app.py: the unlink of a chunk's file raised after the append and the
\* handler's second unlink went through; both chunks are in the outcome
C25_AppUnlinkRaised ==
  /\ pc = "Done" /\ Segmented /\ impl = "app" /\ Len(chunks) = 2
  /\ ~has_callback /\ faults = 1 /\ StuckFiles = {} /\ Cardinality(SegFiles) = 2
  /\ seg_log[1].res = "ok" /\ seg_log[2].res = "ok"
  /\ outcome.chunks_processed = 2

\* the unlink of chunk 1's file failed; both chunks are in the outcome
C25_Witness ==
  /\ pc = "Done" /\ Segmented /\ Len(chunks) = 2
  /\ \E f \in StuckFiles : files[f].owner = "segment" /\ files[f].seg = 1
  /\ outcome.chunks_processed = 2 /\ outcome.chunk_count = 2
  /\ Len(transcripts) = 2

\* the single-file path with the unlink failing: the transcript is returned
C25_SingleStuck ==
  /\ pc = "Done" /\ path = "single"
  /\ \E f \in StuckFiles : files[f].owner = "single"
  /\ outcome.transcript = chain.text /\ outcome.transcript # <<>>

\* C23: when every remote call returns or raises, every chain ends, with a
\* result or a terminal error, after at most max(3, max_retries) + 1 attempts,
\* and every invocation ends in Done or Failed, whatever errors the remote
\* calls give.
C23_Terminates ==
  /\ <>Ended
  /\ (pc = "call") ~> (pc = "ret" /\ chain.status \in {"ok", "fatal"})
  /\ [](attempts <= Max(RateLimitRetries, max_retries) + 1)
  /\ [](chain.status # "none" => chain.cause <= Max(RateLimitRetries, max_retries) + 1)

\* the longest chain of the single-file path: three retries, four errors, and
\* the invocation has ended
C23_Witness ==
  /\ pc = "Failed" /\ path = "single" /\ max_retries = ShippedMaxRetries
  /\ chain.status = "fatal" /\ attempts = 4
  /\ errors = <<"transient", "rate", "transient", "rate">>

\* what _call_whisper_api does when it runs alone against the responses resps:
\* attempts made, sleeps taken, how it ended ("none": the responses ran out
\* first) and the retry_count of the frame that is next
RECURSIVE SoloChain(_, _, _, _)
SoloChain(resps, n, rc, sl) ==
  IF n > Len(resps)
    THEN [attempts |-> n - 1, sleeps |-> sl, status |-> "none", rc |-> rc]
  ELSE IF resps[n] = "ok"
    THEN [attempts |-> n, sleeps |-> sl, status |-> "ok", rc |-> rc]
  ELSE IF resps[n] = "rate"
    THEN IF rc < 3 THEN SoloChain(resps, n + 1, rc + 1, Append(sl, 5))
         ELSE [attempts |-> n, sleeps |-> Append(sl, 5), status |-> "fatal", rc |-> rc]
  ELSE IF rc < max_retries THEN SoloChain(resps, n + 1, rc + 1, Append(sl, 2 ^ rc))
       ELSE [attempts |-> n, sleeps |-> sl, status |-> "fatal", rc |-> rc]

\* the responses the current chain of an invocation has received
Responses(v) == v.errors \o (IF v.chain.status = "ok" THEN <<"ok">> ELSE <<>>)

\* the list a segmented invocation k has when it runs alone and its chains end
\* as results says
RECURSIVE SoloTranscripts(_, _, _)
SoloTranscripts(k, results, s) ==
  IF s > Len(results) THEN <<>>
  ELSE (IF results[s] = "ok"
          THEN <<[text |-> PairText(k, s), start_time |-> (s - 1) * chunk_ms,
                  end_time |-> s * chunk_ms, duration |-> chunk_ms]>>
          ELSE <<>>) \o SoloTranscripts(k, results, s + 1)

\* C24: of two invocations interleaved on one processor, each has the attempt
\* count, the sleeps and the outcome it has when it runs alone against the same
\* responses, whatever the other one does in between; each creates its own
\* temp files and neither opens or unlinks a file of the other.
C24_Isolated ==
  /\ \A k \in DOMAIN invocations :
       LET v == invocations[k]
           s == SoloChain(Responses(v), 1, 0, <<>>)
           ts == SoloTranscripts(k, v.results, 1)
       IN /\ v.attempts = s.attempts /\ v.sleeps = s.sleeps /\ v.chain.status = s.status
          /\ v.pc = "call" => v.retry_count = s.rc /\ s.status = "none"
          /\ v.pc = "ret" => s.status \in {"ok", "fatal"}
          /\ v.chain.status = "ok" =>
               v.chain.text = PairText(k, IF v.mode = "large" THEN Len(v.results) + (IF v.pc = "ret" THEN 1 ELSE 0) ELSE 0)
          /\ v.mode = "large" => v.transcripts = ts /\ v.i = Len(v.results)
          /\ (v.pc = "done" /\ v.mode = "large") =>
               v.outcome = [transcript |-> JoinText(ts), chunk_count |-> v.nseg,
                            chunks_processed |-> Len(ts)]
          /\ (v.pc = "done" /\ v.mode = "single") =>
               v.outcome = [transcript |-> PairText(k, 0), chunk_count |-> 1,
                            chunks_processed |-> -1]
          /\ (v.pc = "failed") => v.mode = "single" /\ s.status = "fatal"
          /\ v.touched \subseteq v.created
          /\ v.temp_path \in v.created \cup {0}
          /\ \A f \in v.created :
               /\ f \in 1..Len(files)
               /\ files[f].st = "exists" => f = v.temp_path /\ v.pc \in {"call", "ret"}
  /\ \A k, l \in DOMAIN invocations :
       k # l => invocations[k].created \cap invocations[l].created = {}
  /\ pc = "pair" =>
       \A f \in 1..Len(files) : \E k \in DOMAIN invocations : f \in invocations[k].created

\* invocation 1 (one file) failed after four rate-limited attempts while
\* invocation 2 (two chunks) lost its first chunk and transcribed its second;
\* their temp files were created alternately
C24_Witness ==
  /\ pc = "pair" /\ max_retries = 1
  /\ invocations[1].pc = "failed" /\ invocations[1].attempts = 4
  /\ invocations[1].errors = <<"rate", "rate", "rate", "rate">>
  /\ invocations[1].sleeps = <<5, 5, 5, 5>>
  /\ invocations[2].errors = <<"transient">> /\ invocations[2].sleeps = <<1>>
  /\ invocations[2].pc = "done" /\ invocations[2].results = <<"fatal", "ok">>
  /\ invocations[2].outcome.chunks_processed = 1
  /\ invocations[2].created = {1, 3} /\ invocations[1].created = {2}

====
